---------------------------- MODULE Spec2Model ----------------------------
(***************************************************************************)
(* The embeddings service: the single-model lifecycle of EmbeddingService  *)
(* (app/embedding_service.py) and the HTTP handlers of app/main.py.        *)
(*                                                                         *)
(* The handlers are `async def` functions that never await, so the event   *)
(* loop of one process runs each of them to completion before it starts    *)
(* the next: one program counter, pc, gives the position of the handler    *)
(* that is running, "idle" between requests.  A request that arrives while *)
(* a handler runs waits in the loop (queued).  The calls into the model    *)
(* library (constructor, eval, to, encode, the dimension accessor) either  *)
(* return or raise; which one is a nondeterministic choice.                *)
(*                                                                         *)
(* A Python Optional is a sequence of length at most one: None is << >>.   *)
(***************************************************************************)
EXTENDS Integers, Sequences, FiniteSets

None == << >>
Some(x) == << x >>
Val(o) == o[1]

----------------------------------------------------------------------------
(* Bounds of the model *)

\* longest texts list enumerated element by element
MaxTexts == 5
\* constructor invocations per behaviour
MaxConstructions == 2

----------------------------------------------------------------------------
(* Settings (app/config.py) and the request schema (app/models.py) *)

default_model_name == "A"
max_batch_size == 32
max_sequence_length == 512
min_items == 1
max_items == 100

\* model identifiers a caller can name
ModelNames == {"A", "B"}
\* the model_name query parameter of POST /model/load, a str
NameInputs == {Some("")} \cup {Some(n) : n \in ModelNames}

\* a text is its content and its number of characters
ShortText == [id |-> "s", chars |-> 1]
OtherText == [id |-> "t", chars |-> max_sequence_length]
LongText == [id |-> "x", chars |-> max_sequence_length + 1]

\* n texts, neighbours distinct, the one at long_at (if any) over-long
TextsOf(n, long_at) ==
    [k \in 1..n |-> IF k = long_at THEN LongText
                    ELSE IF k % 2 = 1 THEN ShortText ELSE OtherText]

Repeat(t, n) == [k \in 1..n |-> t]

\* lists around the max_items limit
LongLists == { Repeat(ShortText, max_items), Repeat(ShortText, max_items + 1) }

\* the texts lists a request can carry: lists of up to MaxTexts texts with
\* at most one over-long text, and the lists around the limit
TextsInputs ==
    { TextsOf(n, long_at) : n \in 0..MaxTexts, long_at \in 0..MaxTexts }
      \cup LongLists

\* the lists whose optional fields are varied: up to MaxTexts texts, none
\* over-long; the other lists are sent with the defaults
Varied(texts) == texts \in { TextsOf(n, 0) : n \in 1..MaxTexts }

\* Optional[str] model_name of an embedding request
EmbedNameInputs(texts) == IF Varied(texts) THEN {None, Some("B")} ELSE {None}

NormalizeInputs(texts) == IF Varied(texts) THEN BOOLEAN ELSE {TRUE}

\* Optional[int] batch_size of an embedding request
BatchSizeInputs(texts) ==
    IF Varied(texts) THEN {None} \cup {Some(b) : b \in -1..2} ELSE {None}

----------------------------------------------------------------------------
VARIABLES
    model,            \* EmbeddingService.model: None or Some(model object)
    model_name,       \* EmbeddingService.model_name: None or Some(identifier)
    heap,             \* model objects that are referenced, hence in memory
    constructed,      \* number of SentenceTransformer(...) invocations
    pc,               \* position of the running handler
    req,              \* the request being handled (kept until the next one)
    entry,            \* model, model_name, constructed on entry to the handler
    new_model,        \* load_model: the constructed object before it is stored
    i,                \* generate_embeddings: loop index
    all_embeddings,   \* generate_embeddings: accumulated vectors
    calls,            \* generate_embeddings: the batches passed to encode
    resp,             \* the response to the last completed request
    queued            \* a request accepted while a handler runs, or None

vars == << model, model_name, heap, constructed, pc, req, entry, new_model,
           i, all_embeddings, calls, resp, queued >>

service == << model, model_name, heap, constructed >>
locals == << new_model, i, all_embeddings, calls >>

----------------------------------------------------------------------------
(* Requests and responses *)

Request(endpoint, texts, name, normalize, batch_size) ==
    [ endpoint |-> endpoint, texts |-> texts, model_name |-> name,
      normalize |-> normalize, batch_size |-> batch_size ]

NoRequest == Request("none", << >>, None, TRUE, None)

Response(endpoint, status) ==
    [ endpoint |-> endpoint, status |-> status, detail |-> "",
      embeddings |-> << >>, has_embeddings |-> FALSE,
      model_name |-> None, total_texts |-> 0, model_loaded |-> FALSE ]

NoResponse == Response("none", 0)

Snapshot == [ model |-> model, model_name |-> model_name,
              constructed |-> constructed ]


----------------------------------------------------------------------------
(* EmbeddingService: pure parts *)

\* Python's `x or d` on an Optional[str]: None and "" are falsy
EffectiveModelName(name) ==
    IF name = None \/ name = Some("") THEN default_model_name ELSE Val(name)

\* the early return left out
AlreadyLoaded_Never(name) == FALSE

\* load_model's early return: the identifier matches and a model is held
AlreadyLoaded(name) == model_name = Some(name) /\ model # None

\* the identifier tested in place of the handle
is_model_loaded_ByName == model_name # None

is_model_loaded == model # None

\* the object SentenceTransformer(name, ...) returns on its k-th invocation
NewModel(k, name) == [id |-> k, name |-> name]

\* the old model kept referenced
Release_Keep(h, m) == h

\* storing over, or deleting, the only reference to a model frees it
Release(h, m) == IF m = None THEN h ELSE h \ {Val(m)}

\* the caller's batch size ignored
EffectiveBatchSize_Default(batch_size) == max_batch_size

\* Python's `batch_size or default` on an Optional[int]: None and 0 are falsy
EffectiveBatchSize(batch_size) ==
    IF batch_size = None \/ batch_size = Some(0)
    THEN max_batch_size ELSE Val(batch_size)

\* whether k is produced by range(0, stop, step) once the loop stands at k
InRange(k, stop, step) == IF step > 0 THEN k < stop ELSE k > stop

Min(a, b) == IF a < b THEN a ELSE b

\* texts[a:b] for 0 <= a <= b, 0-based and clipped to the list
Slice(texts, a, b) == SubSeq(texts, a + 1, Min(b, Len(texts)))

\* the vector model m computes for text t
Vector(m, t, normalize) == [model |-> m.name, text |-> t.id, unit |-> normalize]

\* model.encode(batch, normalize_embeddings=normalize).tolist()
encode(m, batch, normalize) ==
    [k \in 1..Len(batch) |-> Vector(m, batch[k], normalize)]

\* get_model_info(); dims_ok: the dimension lookup returns rather than raises
get_model_info(dims_ok) ==
    IF model = None
    THEN [model_name |-> None, has_dimensions |-> FALSE, is_loaded |-> FALSE]
    ELSE IF dims_ok
    THEN [model_name |-> model_name, has_dimensions |-> TRUE, is_loaded |-> TRUE]
    ELSE [model_name |-> model_name, has_dimensions |-> FALSE, is_loaded |-> FALSE]

----------------------------------------------------------------------------
(* Request validation *)

\* max_items left out
ValidTexts_NoMax(texts) == Len(texts) >= min_items

\* EmbeddingRequest.texts: min_items, max_items
ValidTexts(texts) == Len(texts) >= min_items /\ Len(texts) <= max_items

\* the limit off by one
TextTooLong_OffByOne(t) == t.chars > max_sequence_length + 1

\* the handler's check of one text
TextTooLong(t) == t.chars > max_sequence_length

AnyTextTooLong(texts) == \E k \in 1..Len(texts) : TextTooLong(texts[k])

\* status of a request the schema rejects, and of one the length check rejects
ValidationStatus == 422
TooLongStatus == 400

----------------------------------------------------------------------------
Init ==
    /\ model = None
    /\ model_name = None
    /\ heap = {}
    /\ constructed = 0
    /\ pc = "idle"
    /\ req = NoRequest
    /\ entry = [model |-> None, model_name |-> None, constructed |-> 0]
    /\ new_model = None
    /\ i = 0
    /\ all_embeddings = << >>
    /\ calls = << >>
    /\ resp = NoResponse
    /\ queued = None

\* handlers started although one is running (as handlers run on threads)
MayStart_Always == TRUE

\* the event loop starts a handler when none is running: the handlers are
\* coroutines without an await, each runs to its end once started
MayStart == pc = "idle"

\* a request is taken up, the waiting one first: the locals of the handler
\* are fresh
Receive(r) ==
    /\ MayStart
    /\ queued \in {None, Some(r)}
    /\ queued' = None
    /\ req' = r
    /\ entry' = Snapshot
    /\ new_model' = None
    /\ i' = 0
    /\ all_embeddings' = << >>
    /\ calls' = << >>

\* the handler answers
Reply(r) ==
    /\ resp' = r
    /\ pc' = "idle"

----------------------------------------------------------------------------
(* GET /health, GET /model/info, POST /model/unload: one step each *)

health_check ==
    /\ Receive(Request("health", << >>, None, TRUE, None))
    /\ Reply([Response("health", 200) EXCEPT !.model_loaded = is_model_loaded])
    /\ UNCHANGED service

\* what the handler of GET /model/info answers for get_model_info()'s result
ModelInfoResult(info) ==
    IF ~info.is_loaded
    THEN [Response("info", 503) EXCEPT !.detail = "No model is currently loaded"]
    ELSE IF info.model_name = None
    \* ModelInfo(model_name=None) is rejected by the response schema
    THEN Response("info", 500)
    ELSE [Response("info", 200) EXCEPT
            !.model_name = info.model_name, !.model_loaded = TRUE]

\* the handler of GET /model/info
model_info ==
    /\ Receive(Request("info", << >>, None, TRUE, None))
    /\ \E dims_ok \in BOOLEAN : Reply(ModelInfoResult(get_model_info(dims_ok)))
    /\ UNCHANGED service

\* EmbeddingService.unload_model and the handler of POST /model/unload
unload_model ==
    /\ Receive(Request("unload", << >>, None, TRUE, None))
    /\ IF model # None
       THEN /\ heap' = Release(heap, model)
            /\ model' = None
            /\ model_name' = None
       ELSE UNCHANGED << model, model_name, heap >>
    /\ UNCHANGED constructed
    /\ Reply(Response("unload", 200))

----------------------------------------------------------------------------
(* EmbeddingService.load_model, step by step; it is called by the handler  *)
(* of POST /model/load and by generate_embeddings                          *)

load_name == EffectiveModelName(req.model_name)

\* load_model returns: to the load handler, or into generate_embeddings
load_returns ==
    IF req.endpoint = "load"
    THEN Reply(Response("load", 200))
    ELSE /\ pc' = "embed_start"
         /\ UNCHANGED resp

\* load_model raises RuntimeError: both handlers answer 500
load_raises ==
    Reply([Response(req.endpoint, 500) EXCEPT !.detail = "Failed to load model"])

\* a call that may construct a model is taken while constructions remain
MayLoad(name) ==
    constructed < MaxConstructions \/ AlreadyLoaded(EffectiveModelName(name))

\* the handler of POST /model/load?model_name=
load_model ==
    \E name \in NameInputs :
      /\ MayLoad(name)
      /\ Receive(Request("load", << >>, name, TRUE, None))
      /\ pc' = "load_check"
      /\ UNCHANGED << service, resp >>

load_check ==
    /\ pc = "load_check"
    /\ IF AlreadyLoaded(load_name)
       THEN load_returns
       ELSE pc' = "load_construct" /\ UNCHANGED resp
    /\ UNCHANGED << service, req, queued, entry, locals >>

\* SentenceTransformer(model_name, ...) returns a new object, or raises
load_construct ==
    /\ pc = "load_construct"
    /\ constructed' = constructed + 1
    /\ \/ /\ new_model' = Some(NewModel(constructed + 1, load_name))
          /\ heap' = heap \cup {NewModel(constructed + 1, load_name)}
          /\ pc' = "load_assign"
          /\ UNCHANGED resp
       \/ /\ load_raises
          /\ UNCHANGED << heap, new_model >>
    /\ UNCHANGED << model, model_name, req, queued, entry, i, all_embeddings, calls >>

\* self.model = <the new object>: the reference to the old one is dropped
load_assign ==
    /\ pc = "load_assign"
    /\ model' = new_model
    /\ heap' = Release(heap, model)
    /\ new_model' = None
    /\ pc' = "load_eval"
    /\ UNCHANGED << model_name, constructed, req, queued, entry, i, all_embeddings,
                    calls, resp >>

\* self.model.eval() returns, or raises
load_eval ==
    /\ pc = "load_eval"
    /\ \/ pc' = "load_to" /\ UNCHANGED resp
       \/ load_raises
    /\ UNCHANGED << service, req, queued, entry, locals >>

\* self.model.to(self.device) returns and the identifier is stored, or raises
load_to ==
    /\ pc = "load_to"
    /\ \/ /\ model_name' = Some(load_name)
          /\ load_returns
       \/ /\ load_raises
          /\ UNCHANGED model_name
    /\ UNCHANGED << model, heap, constructed, req, queued, entry, locals >>

----------------------------------------------------------------------------
(* POST /embeddings: the handler and EmbeddingService.generate_embeddings  *)

\* the request is parsed and its texts are checked; a request that passes
\* enters generate_embeddings, whose first act is load_model(model_name)
generate_embeddings ==
    \E texts \in TextsInputs :
      \E name \in EmbedNameInputs(texts), normalize \in NormalizeInputs(texts),
         batch_size \in BatchSizeInputs(texts) :
        /\ Receive(Request("embeddings", texts, name, normalize, batch_size))
        /\ IF ~ValidTexts(texts)
           THEN Reply(Response("embeddings", ValidationStatus))
           ELSE IF AnyTextTooLong(texts)
           THEN Reply(Response("embeddings", TooLongStatus))
           ELSE /\ MayLoad(name)
                /\ pc' = "load_check"
                /\ UNCHANGED resp
        /\ UNCHANGED service

\* the requests of POST /model/unload and POST /model/load
LifecycleRequests ==
    { Request("unload", << >>, None, TRUE, None) }
      \cup { Request("load", << >>, Some(n), TRUE, None) : n \in ModelNames }

\* generate_embeddings is past its load_model call and has not returned
EmbedInFlight == pc \in {"embed_start", "embed_loop"}

\* a second client's load or unload request reaches the server while an
\* embedding request is between its load step and its response
arrive ==
    /\ EmbedInFlight
    /\ queued = None
    /\ \E r \in LifecycleRequests :
         /\ r.endpoint = "load" => constructed < MaxConstructions
         /\ queued' = Some(r)
    /\ UNCHANGED << service, pc, req, entry, locals, resp >>

\* after load_model: the check that a model is held
embed_start ==
    /\ pc = "embed_start"
    /\ IF model = None
       THEN Reply(Response("embeddings", 500))
       ELSE pc' = "embed_loop" /\ UNCHANGED resp
    /\ UNCHANGED << service, req, queued, entry, locals >>

batch_size == EffectiveBatchSize(req.batch_size)

\* the vectors computed so far returned
InferenceFailed_Partial(partial) ==
    [Response("embeddings", 200) EXCEPT
       !.embeddings = partial, !.has_embeddings = TRUE]

\* a failure inside the try block: RuntimeError, answered 500
InferenceFailed(partial) ==
    [Response("embeddings", 500) EXCEPT !.detail = "Failed to generate embeddings"]

\* one turn of the loop: encode the next batch; it returns, or raises
embed_batch ==
    /\ pc = "embed_loop"
    /\ InRange(i, Len(req.texts), batch_size)
    /\ LET batch_texts == Slice(req.texts, i, i + batch_size) IN
         /\ calls' = Append(calls, batch_texts)
         /\ \/ /\ all_embeddings' =
                    all_embeddings \o encode(Val(model), batch_texts, req.normalize)
               /\ i' = i + batch_size
               /\ UNCHANGED << pc, resp >>
            \/ /\ Reply(InferenceFailed(all_embeddings))
               /\ UNCHANGED << i, all_embeddings >>
    /\ UNCHANGED << service, req, queued, entry, new_model >>

\* what the handler builds from the service's result and get_model_info()
EmbeddingResult(embeddings, info) ==
    IF info.model_name = None \/ ~info.has_dimensions
    \* EmbeddingResponse rejects a missing model_name or dimensions
    THEN Response("embeddings", 500)
    ELSE [Response("embeddings", 200) EXCEPT
            !.embeddings = embeddings, !.has_embeddings = TRUE,
            !.model_name = info.model_name, !.total_texts = Len(req.texts),
            !.model_loaded = TRUE]

\* the loop is over: generate_embeddings returns and the handler answers
embed_respond ==
    /\ pc = "embed_loop"
    /\ ~InRange(i, Len(req.texts), batch_size)
    /\ \E dims_ok \in BOOLEAN :
         Reply(EmbeddingResult(all_embeddings, get_model_info(dims_ok)))
    /\ UNCHANGED << service, req, queued, entry, locals >>

----------------------------------------------------------------------------
Next ==
    \/ health_check
    \/ model_info
    \/ unload_model
    \/ load_model
    \/ load_check
    \/ load_construct
    \/ load_assign
    \/ load_eval
    \/ load_to
    \/ generate_embeddings
    \/ embed_start
    \/ embed_batch
    \/ embed_respond
    \/ arrive

Spec == Init /\ [][Next]_vars

TypeOK ==
    /\ model \in {None} \cup {Some(m) : m \in heap}
    /\ model_name \in {None} \cup {Some(n) : n \in ModelNames}
    /\ constructed \in 0..(MaxConstructions + 1)
    /\ pc \in {"idle", "load_check", "load_construct", "load_assign",
               "load_eval", "load_to", "embed_start", "embed_loop"}

----------------------------------------------------------------------------
(* Properties *)

\* the last request was POST /embeddings with these many texts accepted
EmbedRequest == req.endpoint = "embeddings"

\* nothing of the service changed since the handler was entered
ServiceUntouched ==
    /\ model = entry.model
    /\ model_name = entry.model_name
    /\ constructed = entry.constructed

\* the i-th vector of vs is the one the resident model computes for texts[i]
VectorsOf(vs, texts) ==
    /\ Len(vs) = Len(texts)
    /\ \A k \in 1..Len(texts) :
         vs[k] = Vector(Val(model), texts[k], req.normalize)

\* C1: every POST /embeddings answered 200 returns as many vectors as there
\* were texts, the i-th vector being the one computed for the i-th text,
\* whatever batch_size the request carried.
C1_OneVectorPerText ==
    (pc = "idle" /\ EmbedRequest /\ resp.endpoint = "embeddings"
       /\ resp.status = 200)
      => VectorsOf(resp.embeddings, req.texts)

\* C2: POST /embeddings with no texts or with more than 100 texts is answered
\* 422 at once; no model is constructed, no batch is encoded, and the
\* resident model and its identifier are what they were.
C2_BadCountRejected ==
    (EmbedRequest /\ (Len(req.texts) = 0 \/ Len(req.texts) > 100))
      => /\ pc = "idle"
         /\ resp.endpoint = "embeddings"
         /\ resp.status = 422
         /\ ServiceUntouched
         /\ calls = << >>

C2_Witness ==
    /\ EmbedRequest
    /\ Len(req.texts) > 100
    /\ resp.status = 422
    /\ model # None

\* some text of the request has more characters than max_sequence_length
HasOverlongText ==
    \E k \in 1..Len(req.texts) : req.texts[k].chars > max_sequence_length

\* C3 as stated: POST /embeddings with 1 to 100 texts, one of them longer than
\* max_sequence_length, is answered 422 before any load or inference.
C3_OverlongAnswered422 ==
    (EmbedRequest /\ Len(req.texts) \in 1..100 /\ HasOverlongText)
      => /\ pc = "idle"
         /\ resp.status = 422
         /\ ServiceUntouched
         /\ calls = << >>

\* C3 amended: such a request is answered 400 at once; no model is
\* constructed, no batch is encoded, the resident model is what it was.
C3_OverlongAnswered400 ==
    (EmbedRequest /\ Len(req.texts) \in 1..100 /\ HasOverlongText)
      => /\ pc = "idle"
         /\ resp.endpoint = "embeddings"
         /\ resp.status = 400
         /\ ServiceUntouched
         /\ calls = << >>

C3_Witness ==
    /\ EmbedRequest
    /\ Len(req.texts) > 1
    /\ HasOverlongText
    /\ resp.status = 400
    /\ model # None

\* the handler's call of load_model raised
LoadFailed ==
    /\ pc = "idle"
    /\ req.endpoint \in {"load", "embeddings"}
    /\ resp.endpoint = req.endpoint
    /\ resp.detail = "Failed to load model"

\* C4: when load_model raises while a model is resident, the handle and the
\* identifier are what they were before the call, whichever step failed.
C4_FailedLoadKeepsResident ==
    (LoadFailed /\ entry.model # None /\ entry.model_name # None)
      => (model = entry.model /\ model_name = entry.model_name)

\* C5 as stated: at most one model exists in the service at any time, also
\* while a load replaces the resident model.
C5_NeverTwoModels == Cardinality(heap) <= 1

\* the model objects the service refers to: by its handle, and by the
\* constructor's result that load_model has not stored yet
Referenced ==
    {m \in heap : model = Some(m)} \cup {m \in heap : new_model = Some(m)}

\* C5 amended: the handle refers to no model or to one model, every model in
\* memory is referred to, and only between the constructor's return and the
\* store into the handle do two models (old and new) exist.
C5_OneModelButWhileReplacing ==
    /\ model = None \/ Val(model) \in heap
    /\ heap = Referenced
    /\ pc # "load_assign" => Cardinality(heap) <= 1
    /\ pc = "load_assign" => Cardinality(heap) <= 2

C5_Witness ==
    /\ pc = "load_eval"
    /\ entry.model # None
    /\ model # entry.model
    /\ Cardinality(heap) = 1

\* the handler calls load_model, for the identifier the model already held on
\* entry carries
LoadOfResident ==
    /\ \/ req.endpoint = "load"
       \/ EmbedRequest /\ Len(req.texts) \in 1..100 /\ ~HasOverlongText
    /\ entry.model # None
    /\ entry.model_name =
         Some(IF req.model_name \in {None, Some("")}
              THEN default_model_name ELSE Val(req.model_name))

\* C6: load_model for the identifier of the resident model (none meaning the
\* default) is a no-op: the constructor is not invoked, handle and identifier
\* stay, and POST /model/load answers 200.
C6_LoadOfResidentIsNoOp ==
    LoadOfResident
      => /\ ServiceUntouched
         /\ pc \notin {"load_construct", "load_assign", "load_eval", "load_to"}
         /\ (pc = "idle" /\ req.endpoint = "load") => resp.status = 200

C6_Witness ==
    /\ LoadOfResident
    /\ pc = "idle"
    /\ req.endpoint = "load"
    /\ resp.endpoint = "load"
    /\ resp.status = 200
    /\ constructed = 1

\* the handler that just ended is not one whose load_model call returned
NoLoadSucceeded ==
    \/ req.endpoint \in {"none", "health", "info", "unload"}
    \/ resp.status \in {400, 422}
    \/ resp.detail = "Failed to load model"

\* C7: with no model resident on entry, and until a load or embed succeeds,
\* is_model_loaded() is false and GET /model/info answers 503 with a detail
\* saying that no model is loaded.
C7_UnloadedUntilLoadSucceeds ==
    (pc = "idle" /\ entry.model = None /\ NoLoadSucceeded)
      => /\ ~is_model_loaded
         /\ \A dims_ok \in BOOLEAN :
              LET r == ModelInfoResult(get_model_info(dims_ok)) IN
                r.status = 503 /\ r.detail = "No model is currently loaded"


\* the batch size the request asks for: its own, or the default when it
\* carries none
RequestedBatchSize ==
    IF req.batch_size = None THEN max_batch_size ELSE Val(req.batch_size)

CeilDiv(n, b) == (n + b - 1) \div b

\* the c-th of the contiguous chunks of size b of texts
Chunk(texts, b, c) ==
    SubSeq(texts, (c - 1) * b + 1, Min(c * b, Len(texts)))

\* generate_embeddings is in its loop, or has returned its result
InLoop == pc = "embed_loop"
Returned ==
    pc = "idle" /\ EmbedRequest /\ resp.endpoint = "embeddings"
      /\ resp.status = 200

\* C8: for n texts and a positive batch size b, the model is invoked on the
\* contiguous chunks of size b of the input, in order, the last one possibly
\* smaller, exactly ceil(n/b) times by the time the call returns, and the
\* result is the concatenation of the chunks' vectors in that order.
C8_ChunksInOrder ==
    ((InLoop \/ Returned) /\ RequestedBatchSize > 0)
      => LET b == RequestedBatchSize
             n == Len(req.texts)
         IN /\ Len(calls) <= CeilDiv(n, b)
            /\ \A c \in 1..Len(calls) : calls[c] = Chunk(req.texts, b, c)
            /\ i = b * Len(calls)
            /\ VectorsOf(all_embeddings, SubSeq(req.texts, 1, Min(i, n)))
            /\ Returned => /\ Len(calls) = CeilDiv(n, b)
                           /\ resp.embeddings = all_embeddings

C8_Witness ==
    /\ Returned
    /\ req.batch_size = Some(2)
    /\ Len(req.texts) = 5
    /\ Len(calls) = 3
    /\ Len(calls[3]) = 1
    /\ Len(resp.embeddings) = 5

\* the last encode call raised: it was made, and the loop did not advance
EncodeFailed ==
    /\ EmbedRequest
    /\ calls # << >>
    /\ i # batch_size * Len(calls)

\* C9: when encode fails on a chunk, the first or a later one, the request
\* is answered 500 and the answer carries none of the vectors computed for
\* the chunks before it.
C9_NoPartialResult ==
    EncodeFailed
      => /\ pc = "idle"
         /\ resp.endpoint = "embeddings"
         /\ resp.status = 500
         /\ ~resp.has_embeddings
         /\ resp.embeddings = << >>

C9_Witness ==
    /\ EncodeFailed
    /\ Len(calls) > 1
    /\ all_embeddings # << >>
    /\ resp.status = 500

LifecycleWaiting ==
    /\ pc = "embed_loop"
    /\ queued # None
    /\ InRange(i, Len(req.texts), batch_size)

\* C11 as stated: load, unload and embed are not serialized; a load or unload
\* that arrives between an embedding request's load step and one of its
\* inference calls can take effect before that call.
C11_NotSerialized == LifecycleWaiting => ENABLED (load_model \/ unload_model)

\* C11 amended: the handlers of one process run one at a time; from an
\* embedding request's load step to its answer a model is resident, no step
\* changes the handle or its identifier, a load or unload that arrives stays
\* waiting, and every vector so far is the resident model's.
C11_EmbedRunsAlone ==
    [][ EmbedInFlight =>
          /\ model # None
          /\ model' = model
          /\ model_name' = model_name
          /\ req' = req
          /\ (queued # None => queued' = queued)
          /\ VectorsOf(all_embeddings, SubSeq(req.texts, 1, Len(all_embeddings)))
      ]_vars

\* a load of the other identifier arrived after the first batch of a request
\* for "A"; the request went on to its answer, all vectors from model "A"
C11_Witness ==
    /\ Returned
    /\ Len(calls) > 1
    /\ queued = Some(Request("load", << >>, Some("B"), TRUE, None))
    /\ model_name = Some("A")
    /\ \A k \in 1..Len(resp.embeddings) : resp.embeddings[k].model = "A"

============================================================================
